---- MODULE Spec2Model ----
(***************************************************************************)
(* Model of lib/rules/file-extension-in-import.js.                         *)
(*                                                                         *)
(* JavaScript strings are sequences of one-character strings.  Offsets in  *)
(* the source text are 0-based as in the code (node.range); sequence       *)
(* positions are 1-based, so the character at offset k is text[k + 1].     *)
(* `undefined` option values are the string Undefined; an absent (null,    *)
(* undefined or "") filePath is the empty sequence, all three being falsy  *)
(* for the `!filePath` test of verify.  Paths follow path.posix.           *)
(***************************************************************************)
EXTENDS Integers, Sequences, FiniteSets, TLC

VARIABLES
    pc,            \* "start" | "skipped" | "created" | "reported" | "fixed" | "relinted"
    filename,      \* context.getFilename()
    options,       \* context.options, a positional list of length 0..2
    defaultStyle,  \* closure variable of create
    overrideStyle, \* closure variable of create
    fs,            \* the directory /p on disk: [readable, entries]
    filePath,      \* the resolved path of the import target (<<>> = absent)
    text,          \* the linted source text
    output,        \* the source text after the fixes were applied
    reports        \* what context.report received in the last pass

vars == <<pc, filename, options, defaultStyle, overrideStyle, fs, filePath,
          text, output, reports>>

----------------------------------------------------------------------------
(* Bounds and input alphabets *)

MaxParts == 3

MaxDirEntries == 2

SLASH == "/"

BACKSLASH == "\\"

DOT == "."

QUOTE == "\""

Undefined == "undefined"

Styles == {"always", "never"}

Max(S) == CHOOSE x \in S : \A y \in S : y <= x

----------------------------------------------------------------------------
(* path.posix *)

\* Position of the last character that is not a trailing slash (0 if none).
TrimmedEnd(p) == Max({0} \cup {i \in 1..Len(p) : p[i] # SLASH})

\* Position of the first character of the last path segment.
SegmentStart(p) ==
    Max({1} \cup {i + 1 : i \in {k \in 1..TrimmedEnd(p) : p[k] = SLASH}})

extname(p) ==
    LET end == TrimmedEnd(p)
        startPart == SegmentStart(p)
        dots == {i \in startPart..end : p[i] = DOT}
        startDot == Max({0} \cup dots)
        preDotState == IF dots = {} \/ startDot = startPart THEN 0
                       ELSE IF p[startPart] = DOT THEN 1
                       ELSE -1
    IN  IF \/ dots = {}
           \/ end = 0
           \/ preDotState = 0
           \/ (preDotState = 1 /\ startDot = end /\ startDot = startPart + 1)
        THEN <<>>
        ELSE SubSeq(p, startDot, end)

EndsWith(s, suffix) ==
    /\ Len(suffix) <= Len(s)
    /\ SubSeq(s, Len(s) - Len(suffix) + 1, Len(s)) = suffix

basename(p, ext) ==
    LET seg == SubSeq(p, SegmentStart(p), TrimmedEnd(p))
    IN  IF ext # <<>> /\ ext = p THEN <<>>
        ELSE IF ext # <<>> /\ EndsWith(seg, ext) /\ seg # ext
             THEN SubSeq(seg, 1, Len(seg) - Len(ext))
             ELSE seg

dirname(p) ==
    LET hasRoot == Len(p) > 0 /\ p[1] = SLASH
        \* positions >= 2 of a slash that is followed by a non-slash later on
        cuts == {i \in 2..Len(p) :
                    p[i] = SLASH /\ \E k \in (i + 1)..Len(p) : p[k] # SLASH}
    IN  IF Len(p) = 0 THEN <<DOT>>
        ELSE IF cuts = {} THEN (IF hasRoot THEN <<SLASH>> ELSE <<DOT>>)
        ELSE SubSeq(p, 1, Max(cuts) - 1)

----------------------------------------------------------------------------
(* JavaScript values *)

\* a || b for option values (strings) and for file extensions (sequences).
OrValue(a, b) == IF a = Undefined THEN b ELSE a

OrString(a, b) == IF a = <<>> THEN b ELSE a

\* obj[key]: undefined when the object has no such property.
Get(obj, key) == IF key \in DOMAIN obj THEN obj[key] ELSE Undefined

EmptyObject == [k \in {} |-> Undefined]

\* list[i] of a positional list, 0-based: undefined past its end.
At(list, i) == IF i + 1 <= Len(list) THEN list[i + 1] ELSE Undefined

\* String.prototype.lastIndexOf: 0-based, -1 when there is no occurrence.
lastIndexOf(s, sub) ==
    Max({-1} \cup {i \in 0..(Len(s) - Len(sub)) :
                      SubSeq(s, i + 1, i + Len(sub)) = sub})

\* String.prototype.indexOf: 0-based, -1 when there is no occurrence.
indexOf(s, sub) ==
    LET hits == {i \in 0..(Len(s) - Len(sub)) :
                    SubSeq(s, i + 1, i + Len(sub)) = sub}
    IN  IF hits = {} THEN -1 ELSE CHOOSE i \in hits : \A k \in hits : i <= k

\* /[/\\]/u.test(name)
HasPathSeparator(name) ==
    \E i \in 1..Len(name) : name[i] = SLASH \/ name[i] = BACKSLASH

\* The value of a string literal whose text between the quotes is raw: a
\* backslash makes the next character stand for itself.
RECURSIVE Unescape(_)
Unescape(raw) ==
    IF raw = <<>> THEN <<>>
    ELSE IF raw[1] = BACKSLASH
         THEN IF Len(raw) = 1 THEN <<>>
              ELSE <<raw[2]>> \o Unescape(SubSeq(raw, 3, Len(raw)))
         ELSE <<raw[1]>> \o Unescape(Tail(raw))

\* No backslash of raw is left without the character it escapes.
RECURSIVE WellFormed(_)
WellFormed(raw) ==
    IF raw = <<>> THEN TRUE
    ELSE IF raw[1] = BACKSLASH
         THEN Len(raw) >= 2 /\ WellFormed(SubSeq(raw, 3, Len(raw)))
         ELSE WellFormed(Tail(raw))

\* Position in src of the quote that closes the literal opened before `from`.
RECURSIVE ClosingQuote(_, _)
ClosingQuote(src, from) ==
    IF from > Len(src) THEN Len(src) + 1
    ELSE IF src[from] = QUOTE THEN from
    ELSE IF src[from] = BACKSLASH THEN ClosingQuote(src, from + 2)
    ELSE ClosingQuote(src, from + 1)

----------------------------------------------------------------------------
(* Inputs *)

Parts == {<<SLASH>>, <<BACKSLASH>>, <<"a">>, <<DOT, "j">>}

RECURSIVE Concats(_)
Concats(n) ==
    IF n = 0 THEN {<<>>}
    ELSE Concats(n - 1) \cup {c \o q : c \in Concats(n - 1), q \in Parts}

\* The texts between the quotes of a well-formed literal: no quote, and no
\* backslash left without the character it escapes.
RawTexts == {r \in Concats(MaxParts) : WellFormed(r)}

SrcPrefix == <<"i", "m", "p", "o", "r", "t", " ">>

SourceOf(raw) == SrcPrefix \o <<QUOTE>> \o raw \o <<QUOTE>>

Dir == <<SLASH, "p">>

FilePaths ==
    {<<>>} \cup {Dir \o <<SLASH>> \o f : f \in {<<"a">>, <<"a", DOT, "j">>, <<"j", DOT, "a">>}}

EntryNames == {<<"a">>, <<"a", DOT, "j">>, <<"j", DOT, "a">>}

RECURSIVE Listings(_)
Listings(n) ==
    IF n = 0 THEN {<<>>}
    ELSE Listings(n - 1) \cup
         {Append(l, e) : l \in {x \in Listings(n - 1) : Len(x) = n - 1},
                         e \in EntryNames}

DistinctEntries(l) == \A i, j \in 1..Len(l) : l[i] = l[j] => i = j

Disks ==
    {[readable |-> FALSE, entries |-> <<>>]} \cup
    {[readable |-> TRUE, entries |-> l] :
        l \in {x \in Listings(MaxDirEntries) : DistinctEntries(x)}}

OverrideKeys == {<<DOT, "j">>}

OverrideObjects ==
    UNION {[ks -> Styles] : ks \in SUBSET OverrideKeys}

OptionLists ==
    {<<>>} \cup {<<s>> : s \in Styles}
           \cup {<<s, o>> : s \in Styles, o \in OverrideObjects}

Filenames == {<<"<", "i", ">">>, <<SLASH, "p", SLASH, "x">>}

----------------------------------------------------------------------------
(* The rule *)

\* fs.readdirSync(dir): the entries, or a throw (modelled by ok = FALSE).
readdirSync(disk, dir) ==
    IF disk.readable /\ dir = Dir
    THEN [ok |-> TRUE, entries |-> disk.entries]
    ELSE [ok |-> FALSE, entries |-> <<>>]

MapExt(s) == [i \in 1..Len(s) |-> extname(s[i])]

\* Variant: a directory that cannot be listed counts as holding the file itself.
getExistingExtensionsAssumeSelf(disk, path) ==
    LET base == basename(path, extname(path))
        listing == readdirSync(disk, dirname(path))
        SameBase(entry) == basename(entry, extname(entry)) = base
    IN  IF listing.ok
        THEN MapExt(SelectSeq(listing.entries, SameBase))
        ELSE <<extname(path)>>

getExistingExtensions(disk, path) ==
    LET base == basename(path, extname(path))
        listing == readdirSync(disk, dirname(path))
        SameBase(entry) == basename(entry, extname(entry)) = base
    IN  IF listing.ok
        THEN MapExt(SelectSeq(listing.entries, SameBase))
        ELSE <<>>

\* The one target of `import "<raw>"`: name is the literal's value, node its
\* location.
getImportExportTargets(src, resolved) ==
    LET open == Len(SrcPrefix) + 1
        close == ClosingQuote(src, open + 1)
    IN  <<[filePath |-> resolved,
           name |-> Unescape(SubSeq(src, open + 1, close - 1)),
           node |-> [range |-> <<open - 1, close>>]]>>

\* Variant: skips a target only when it is both unresolved and bare.
IsIgnoredWhenBoth(path, name) == path = <<>> /\ ~HasPathSeparator(name)

\* verify, line 72
IsIgnored(path, name) == path = <<>> \/ ~HasPathSeparator(name)

\* Variant: gives up only when no sibling was found.
IsUndeterminedWhenNone(resolvedExt, existingExts) ==
    resolvedExt = <<>> /\ Len(existingExts) = 0

\* verify, line 80
IsUndetermined(resolvedExt, existingExts) ==
    resolvedExt = <<>> /\ Len(existingExts) # 1

\* Variant: a sibling's extension wins over the resolved path's own.
CanonicalExtSiblingFirst(resolvedExt, existingExts) ==
    IF Len(existingExts) >= 1 THEN existingExts[1] ELSE resolvedExt

\* verify, line 84
CanonicalExt(resolvedExt, existingExts) ==
    OrString(resolvedExt, existingExts[1])

\* Variant: the default style wins over the override.
EffectiveStyleDefaultFirst(overrides, default, ext) ==
    OrValue(default, Get(overrides, ext))

\* verify, line 85
EffectiveStyle(overrides, default, ext) ==
    OrValue(Get(overrides, ext), default)

\* fixer.insertTextBeforeRange and fixer.removeRange
insertTextBeforeRange(range, txt) ==
    [range |-> <<range[1], range[1]>>, text |-> txt]

removeRange(range) == [range |-> range, text |-> <<>>]

\* Variant: the fix is withheld only when no sibling was found.
RequireExtFixUnlessNone(node, ext, existingExts) ==
    IF Len(existingExts) = 0 THEN <<>>
    ELSE LET index == node.range[2] - 1
         IN  <<insertTextBeforeRange(<<index, index>>, ext)>>

\* Variant: the extension is inserted at the end of the literal, after the
\* closing quote.
RequireExtFixAtEnd(node, ext, existingExts) ==
    IF Len(existingExts) # 1 THEN <<>>
    ELSE LET index == node.range[2]
         IN  <<insertTextBeforeRange(<<index, index>>, ext)>>

\* The fix callbacks: <<>> stands for null.
RequireExtFix(node, ext, existingExts) ==
    IF Len(existingExts) # 1 THEN <<>>
    ELSE LET index == node.range[2] - 1
         IN  <<insertTextBeforeRange(<<index, index>>, ext)>>

\* Variant: the extension is searched from the front (indexOf).
ForbidExtFixFirstIndex(node, name, ext, existingExts) ==
    IF Len(existingExts) # 1 THEN <<>>
    ELSE LET index == indexOf(name, ext)
             start == node.range[1] + 1 + index
             end == start + Len(ext)
         IN  <<removeRange(<<start, end>>)>>

ForbidExtFix(node, name, ext, existingExts) ==
    IF Len(existingExts) # 1 THEN <<>>
    ELSE LET index == lastIndexOf(name, ext)
             start == node.range[1] + 1 + index
             end == start + Len(ext)
         IN  <<removeRange(<<start, end>>)>>

\* verify: the reports it hands to context.report for one target.
verify(target, disk, default, overrides) ==
    IF IsIgnored(target.filePath, target.name) THEN <<>>
    ELSE
    LET originalExt == extname(target.name)
        resolvedExt == extname(target.filePath)
        existingExts == getExistingExtensions(disk, target.filePath)
    IN  IF IsUndetermined(resolvedExt, existingExts) THEN <<>>
        ELSE
        LET ext == CanonicalExt(resolvedExt, existingExts)
            style == EffectiveStyle(overrides, default, ext)
        IN  IF style = "always" /\ ext # originalExt
            THEN <<[messageId |-> "requireExt", data |-> [ext |-> ext],
                    fix |-> RequireExtFix(target.node, ext, existingExts)]>>
            ELSE IF style = "never" /\ ext = originalExt
            THEN <<[messageId |-> "forbidExt", data |-> [ext |-> ext],
                    fix |-> ForbidExtFix(target.node, target.name, ext,
                                         existingExts)]>>
            ELSE <<>>

\* "Program:exit": verify every target of the source text.
ProgramExit(src, resolved, disk) ==
    LET targets == getImportExportTargets(src, resolved)
    IN  verify(targets[1], disk, defaultStyle, overrideStyle)

\* The host applying a fix to the source text.
ApplyFix(src, fix) ==
    SubSeq(src, 1, fix.range[1]) \o fix.text
        \o SubSeq(src, fix.range[2] + 1, Len(src))

----------------------------------------------------------------------------
(* The state machine *)

Init ==
    /\ pc = "start"
    /\ filename \in Filenames
    /\ options \in OptionLists
    /\ defaultStyle = Undefined
    /\ overrideStyle = EmptyObject
    /\ fs = [readable |-> FALSE, entries |-> <<>>]
    /\ filePath = <<>>
    /\ text = <<>>
    /\ output = <<>>
    /\ reports = <<>>

\* create(context)
Create ==
    /\ pc = "start"
    /\ IF filename # <<>> /\ filename[1] = "<"
       THEN /\ pc' = "skipped"
            /\ UNCHANGED <<defaultStyle, overrideStyle>>
       ELSE /\ pc' = "created"
            /\ defaultStyle' = OrValue(At(options, 0), "always")
            /\ overrideStyle' = IF Len(options) >= 2 THEN options[2]
                                ELSE EmptyObject
    /\ UNCHANGED <<filename, options, fs, filePath, text, output, reports>>

\* The first pass over a file: the host parses it and fires "Program:exit".
Lint ==
    /\ pc = "created"
    /\ \E raw \in RawTexts, resolved \in FilePaths, disk \in Disks :
          /\ text' = SourceOf(raw)
          /\ output' = SourceOf(raw)
          /\ filePath' = resolved
          /\ fs' = disk
          /\ reports' = ProgramExit(SourceOf(raw), resolved, disk)
    /\ pc' = "reported"
    /\ UNCHANGED <<filename, options, defaultStyle, overrideStyle>>

\* The host applies the fix of the report, if it carries one.
Fix ==
    /\ pc = "reported"
    /\ reports # <<>>
    /\ reports[1].fix # <<>>
    /\ output' = ApplyFix(text, reports[1].fix[1])
    /\ pc' = "fixed"
    /\ UNCHANGED <<filename, options, defaultStyle, overrideStyle, fs,
                   filePath, text, reports>>

\* The second pass, over the fixed text: same resolved path, same disk.
Relint ==
    /\ pc = "fixed"
    /\ reports' = ProgramExit(output, filePath, fs)
    /\ pc' = "relinted"
    /\ UNCHANGED <<filename, options, defaultStyle, overrideStyle, fs,
                   filePath, text, output>>

Next == Create \/ Lint \/ Fix \/ Relint

Spec == Init /\ [][Next]_vars

----------------------------------------------------------------------------
(* The linted target, read off the state *)

\* The text between the quotes, the specifier and the literal's span in the
\* text of the first pass.
Raw == SubSeq(text, Len(SrcPrefix) + 2, Len(text) - 1)

Name == Unescape(Raw)

SpanStart == Len(SrcPrefix)

SpanEnd == Len(text)

Bare == \A i \in 1..Len(Name) : Name[i] \notin {SLASH, BACKSLASH}

Unresolved == filePath = <<>>

SpecifierExt == extname(Name)

ResolvedExt == extname(filePath)

Siblings == getExistingExtensions(fs, filePath)

Indeterminate == ResolvedExt = <<>> /\ Len(Siblings) # 1

Canonical == IF ResolvedExt # <<>> THEN ResolvedExt ELSE Siblings[1]

\* The style the configuration asks for: the override of the extension when
\* there is one, else option 0, else `always`.
ConfiguredStyle(ext) ==
    IF Len(options) >= 2 /\ ext \in DOMAIN options[2] THEN options[2][ext]
    ELSE IF Len(options) >= 1 THEN options[1]
    ELSE "always"

NoDiagnostic == reports = <<>>

OneDiagnostic(id, ext) ==
    /\ Len(reports) = 1
    /\ reports[1].messageId = id
    /\ reports[1].data.ext = ext

HasFix == reports # <<>> /\ reports[1].fix # <<>>

\* The specifier without its final extension.
WithoutFinalExt(n) ==
    SubSeq(n, 1, TrimmedEnd(n) - Len(extname(n)))
        \o SubSeq(n, TrimmedEnd(n) + 1, Len(n))

\* i is the 0-based position of the last occurrence of sub in s.
IsLastOccurrence(s, sub, i) ==
    /\ i >= 0
    /\ i + Len(sub) <= Len(s)
    /\ SubSeq(s, i + 1, i + Len(sub)) = sub
    /\ \A k \in (i + 1)..(Len(s) - Len(sub)) :
          SubSeq(s, k + 1, k + Len(sub)) # sub

----------------------------------------------------------------------------
(* Claims *)

ExplicitExtensionOutcome ==
    LET E == ResolvedExt
        st == ConfiguredStyle(E)
    IN  /\ (st = "always" /\ SpecifierExt = E) => NoDiagnostic
        /\ (st = "never" /\ SpecifierExt # E) => NoDiagnostic
        /\ (st = "always" /\ SpecifierExt # E) => OneDiagnostic("requireExt", E)
        /\ (st = "never" /\ SpecifierExt = E) => OneDiagnostic("forbidExt", E)

\* C1 as stated: for every target whose resolved path has an explicit
\* extension E, style `always` with specifier extension E, or `never` with
\* another one, gives no diagnostic, and the inverse cases give exactly one
\* diagnostic, requireExt resp. forbidExt with ext = E, whatever the siblings.
C1_EveryTarget ==
    (pc = "reported" /\ ResolvedExt # <<>>) => ExplicitExtensionOutcome

\* C1 amended: the same, for the targets whose specifier contains a path
\* separator; a bare specifier gets no diagnostic even when its resolved path
\* has an extension.
C1_ExplicitExtension ==
    (pc = "reported" /\ ResolvedExt # <<>> /\ ~Bare) => ExplicitExtensionOutcome

C1_Witness ==
    /\ pc = "reported"
    /\ ResolvedExt # <<>>
    /\ ~Bare
    /\ Len(Siblings) = 2
    /\ OneDiagnostic("requireExt", ResolvedExt)

\* C2: once the fix of a diagnostic was applied, verifying the fixed
\* specifier (same resolved path, directory and configuration) gives no
\* diagnostic.
C2_Idempotent == pc = "relinted" => NoDiagnostic

\* C3: a resolved path without extension whose sibling discovery yields zero
\* or several extensions gets no diagnostic, under every configuration.
C3_AmbiguityGuard ==
    (pc = "reported" /\ ResolvedExt = <<>> /\ Len(Siblings) # 1) => NoDiagnostic

C3_Witness ==
    /\ pc = "reported"
    /\ ~Unresolved
    /\ ~Bare
    /\ ResolvedExt = <<>>
    /\ Len(Siblings) >= 2
    /\ NoDiagnostic

\* C4: a diagnostic carries a fix only when sibling discovery found exactly
\* one extension; with none (an unlistable directory included) or several,
\* its fix is null.
C4_AutofixSuppression ==
    (pc \in {"reported", "fixed"} /\ reports # <<>>) =>
        (Len(Siblings) # 1 => reports[1].fix = <<>>)

C4_Witness ==
    /\ pc = "reported"
    /\ ~fs.readable
    /\ reports # <<>>
    /\ reports[1].fix = <<>>

\* C5 as stated: an unreadable or missing directory (empty discovery), an
\* indeterminate canonical extension, a bare specifier or an unresolved path
\* never gives a diagnostic or a fix, also when the resolved path carries an
\* extension.
C5_NoAnomalyFlags ==
    (pc = "reported" /\
     (~fs.readable \/ Siblings = <<>> \/ Indeterminate \/ Bare \/ Unresolved))
        => NoDiagnostic

\* C5 amended: an indeterminate canonical extension, a bare specifier or an
\* unresolved path gives no diagnostic and no fix; an unreadable or missing
\* directory (empty discovery) gives no fix, and no diagnostic when the
\* resolved path has no extension.
C5_AnomaliesDegrade ==
    pc = "reported" =>
        /\ (Indeterminate \/ Bare \/ Unresolved) => NoDiagnostic
        /\ (~fs.readable \/ Siblings = <<>>) =>
              /\ ~HasFix
              /\ ResolvedExt = <<>> => NoDiagnostic

C5_Witness ==
    /\ pc = "reported"
    /\ ~fs.readable
    /\ ~Bare
    /\ ResolvedExt # <<>>
    /\ reports # <<>>
    /\ ~HasFix

\* C6: a specifier without `/` and `\`, and a target without resolved path,
\* gets no diagnostic, whatever the directory and the configuration.
C6_BareOrUnresolved ==
    (pc = "reported" /\ (Bare \/ Unresolved)) => NoDiagnostic

C6_Witness ==
    /\ pc = "reported"
    /\ Bare
    /\ ~Unresolved
    /\ ResolvedExt # <<>>
    /\ Len(Siblings) = 1
    /\ ConfiguredStyle(ResolvedExt) = "always"
    /\ SpecifierExt # ResolvedExt
    /\ NoDiagnostic

\* C7: the style applied to the canonical extension is its override when the
\* overrides have that extension as a key, else the default style (`always`
\* when option 0 is not given): the outcome is that of this style.
C7_OverridePrecedence ==
    (pc = "reported" /\ ~Bare /\ ~Unresolved /\ ~Indeterminate) =>
        LET st == ConfiguredStyle(Canonical)
        IN  IF st = "always" /\ Canonical # SpecifierExt
            THEN OneDiagnostic("requireExt", Canonical)
            ELSE IF st = "never" /\ Canonical = SpecifierExt
            THEN OneDiagnostic("forbidExt", Canonical)
            ELSE NoDiagnostic

C7_Witness ==
    /\ pc = "reported"
    /\ ~Bare /\ ~Unresolved /\ ~Indeterminate
    /\ Len(options) = 2
    /\ Canonical \in DOMAIN options[2]
    /\ options[2][Canonical] = "never"
    /\ options[1] = "always"
    /\ OneDiagnostic("forbidExt", Canonical)

\* C8: the fix of a forbidExt diagnostic removes the range [s, s + len(ext))
\* with s = spanStart + 1 + the last index of ext in the specifier; when the
\* text between the quotes is the specifier itself, the removed characters
\* are ext, the range lies between the quotes, and the fixed specifier is the
\* original one without its final extension.
C8_ForbidFixRange ==
    (pc = "fixed" /\ reports[1].messageId = "forbidExt") =>
        LET f == reports[1].fix[1]
            ext == reports[1].data.ext
            s == f.range[1]
            e == f.range[2]
        IN  /\ IsLastOccurrence(Name, ext, s - SpanStart - 1)
            /\ e = s + Len(ext)
            /\ f.text = <<>>
            /\ Raw = Name =>
                  /\ SubSeq(text, s + 1, e) = ext
                  /\ SpanStart < s
                  /\ e <= SpanEnd - 1
                  /\ output = SourceOf(WithoutFinalExt(Name))

C8_Witness ==
    /\ pc = "fixed"
    /\ reports[1].messageId = "forbidExt"
    /\ Raw = Name
    /\ reports[1].data.ext # <<>>
    /\ indexOf(Name, reports[1].data.ext) # lastIndexOf(Name, reports[1].data.ext)

\* C9: the fix of a requireExt diagnostic inserts the canonical extension at
\* offset spanEnd - 1, right before the closing quote, and removes nothing:
\* the fixed specifier is the original one followed by ext, also when the
\* original one had another extension.
C9_RequireFixInsertion ==
    (pc = "fixed" /\ reports[1].messageId = "requireExt") =>
        LET f == reports[1].fix[1]
            ext == reports[1].data.ext
        IN  /\ f.range = <<SpanEnd - 1, SpanEnd - 1>>
            /\ f.text = ext
            /\ output = SourceOf(Raw \o ext)
            /\ getImportExportTargets(output, filePath)[1].name = Name \o ext

C9_Witness ==
    /\ pc = "fixed"
    /\ reports[1].messageId = "requireExt"
    /\ SpecifierExt # <<>>
    /\ reports[1].data.ext # <<>>

\* C10: the ext of every diagnostic is a non-empty extension starting with a
\* dot; a resolved path without extension whose only sibling is the
\* extension-less file itself gets no diagnostic.
C10_ExtNonEmpty ==
    \A i \in 1..Len(reports) :
        /\ reports[i].data.ext # <<>>
        /\ reports[i].data.ext[1] = DOT

====
